---- MODULE Spec2Model ----
(***************************************************************************)
(* A model of Playlist_Updater.py: the M3U parser, the channel matcher,    *)
(* the provider gate, the reconciliation of a local playlist against the   *)
(* DrewLive playlist, the guarded save, the XMLTV guide filter, and the    *)
(* control flow of main() with the exception handler of the script.        *)
(*                                                                         *)
(* Text is modelled structurally.  A line of a playlist is a record        *)
(*   kind  : "marker" (#EXTM3U), "blank", "extinf" (#EXTINF...), "url"     *)
(*           (http:// or https://...), "other" (any other text)            *)
(*   lead  : the line starts with whitespace                               *)
(*   trail : the line ends with whitespace                                 *)
(*   attr  : <<>> (no tvg-id attribute) or <<v>> (tvg-id="v", v may be "") *)
(*   text  : the characters after the first comma of an #EXTINF line       *)
(*   host  : the labels of the host of a URL line                          *)
(*   path  : the rest of a URL line, or the text of an "other" line        *)
(* A string that the code treats as a sequence of characters (a name) is   *)
(* a sequence of one-character strings; a dotted host name is the sequence *)
(* of its labels; None and "" are the empty sequence.                      *)
(***************************************************************************)
EXTENDS Integers, Sequences, FiniteSets, TLC

\* Bounds of the model.
MaxLocal == 2
MaxUp == 2
MaxLines == 4
MaxGuide == 3

VARIABLES
    pc,              \* position of the run in main() / update_epg()
    playlist_file,   \* PLAYLIST_FILE on disk: [exists, lines]
    remote,          \* what DREW_PLAYLIST_URL serves
    drew_lines, drew_channels,
    local_lines, local_channels,
    updated_lines, updated_count,
    written,         \* save_playlist opened PLAYLIST_FILE for writing
    epg_data, epg_root, channels_dict, filtered_epg,
    epg_file,        \* EPG_FILE on disk: <<>> or <<document>>
    epg_updated,
    exit_code        \* -1 while running, 0 normal end, 1 exit(1)

vars == <<pc, playlist_file, remote, drew_lines, drew_channels,
          local_lines, local_channels, updated_lines, updated_count, written,
          epg_data, epg_root, channels_dict, filtered_epg, epg_file,
          epg_updated, exit_code>>

----------------------------------------------------------------------------
\* Lines

MkLine(k, ld, tr, a, t, h, p) ==
    [kind |-> k, lead |-> ld, trail |-> tr, attr |-> a, text |-> t,
     host |-> h, path |-> p]

MarkerLine == MkLine("marker", FALSE, FALSE, <<>>, <<>>, <<>>, "")
BlankLine == MkLine("blank", FALSE, FALSE, <<>>, <<>>, <<>>, "")
ExtInfLine(a, t) == MkLine("extinf", FALSE, FALSE, a, t, <<>>, "")
UrlLine(h, p) == MkLine("url", FALSE, FALSE, <<>>, <<>>, h, p)
OtherLine(p) == MkLine("other", FALSE, FALSE, <<>>, <<>>, <<>>, p)
Padded(l, ld, tr) == [l EXCEPT !.lead = ld, !.trail = tr]

\* str.strip() and str.lower() on a sequence of characters
RECURSIVE LStripSeq(_)
LStripSeq(s) ==
    IF s # <<>> /\ Head(s) = " " THEN LStripSeq(Tail(s)) ELSE s

RECURSIVE RStripSeq(_)
RStripSeq(s) ==
    IF s # <<>> /\ s[Len(s)] = " " THEN RStripSeq(SubSeq(s, 1, Len(s) - 1))
    ELSE s

StripSeq(s) == RStripSeq(LStripSeq(s))

LowerChar(c) ==
    CASE c = "A" -> "a"
      [] c = "B" -> "b"
      [] OTHER -> c

LowerSeq(s) == [i \in 1..Len(s) |-> LowerChar(s[i])]

\* str.strip() on a line: the surrounding whitespace goes; the text after
\* the comma ends the line, so its trailing blanks go with it.
Strip(l) ==
    [l EXCEPT !.lead = FALSE, !.trail = FALSE, !.text = RStripSeq(@)]

\* line.startswith("#EXTINF"), candidate.startswith("http://") or ("https://")
StartsWithExtInf(l) == l.kind = "extinf" /\ ~l.lead
StartsWithHttp(l) == l.kind = "url" /\ ~l.lead
\* not line  (the empty string)
IsEmptyLine(l) == l.kind = "blank" /\ ~l.lead /\ ~l.trail

----------------------------------------------------------------------------
\* extract_provider_domain

BadHost == <<"[">>       \* a host urlparse rejects (ValueError: Invalid IPv6 URL)

LowerLabel(x) ==
    CASE x = "EX" -> "ex"
      [] x = "COM" -> "com"
      [] OTHER -> x

IsDigits(x) == x \in {"0", "1", "2", "10", "192", "168"}

\* urlparse(url).hostname or "": lower-cased, None for an empty host
Hostname(url) == [i \in 1..Len(url.host) |-> LowerLabel(url.host[i])]

extract_provider_domain(url) ==
    IF url.host = BadHost THEN <<>>                       \* except: return ""
    ELSE LET hostname == Hostname(url)
             parts == hostname
         IN  IF Len(parts) = 4 /\ \A i \in 1..4 : IsDigits(parts[i])
             THEN hostname                                  \* IPv4 address
             ELSE IF Len(parts) >= 2
                  THEN SubSeq(parts, Len(parts) - 1, Len(parts))
                  ELSE hostname

----------------------------------------------------------------------------
\* parse_m3u_playlist

\* re.search(r'tvg-id="([^"]+)"', line): None unless the value is non-empty
TvgId(line) ==
    IF line.attr # <<>> /\ line.attr[1] # "" THEN <<line.attr[1]>> ELSE <<>>

\* re.search(r',(.+)$', line).group(1).strip(), "" without a match
ChannelName(line) ==
    IF Len(line.text) >= 1 THEN StripSeq(line.text) ELSE <<>>

MkChannel(line, url, extras, index) ==
    [extinf |-> line, url |-> url, extras |-> extras, tvg_id |-> TvgId(line),
     name |-> ChannelName(line), provider |-> extract_provider_domain(url),
     original_index |-> index]

\* the inner while loop: from line j on, collect extras up to the URL line
RECURSIVE ScanBlock(_, _, _)
ScanBlock(lines, j, extras) ==
    IF j > Len(lines) THEN [j |-> j, extras |-> extras, url |-> <<>>]
    ELSE LET candidate == Strip(lines[j])
         IN  IF StartsWithExtInf(candidate)
             THEN [j |-> j, extras |-> extras, url |-> <<>>]
             ELSE IF StartsWithHttp(candidate)
                  THEN [j |-> j + 1, extras |-> extras, url |-> <<candidate>>]
                  ELSE ScanBlock(lines, j + 1, Append(extras, lines[j]))

\* the outer while loop, from line i on
RECURSIVE ParseFrom(_, _, _)
ParseFrom(lines, i, channels) ==
    IF i > Len(lines) THEN channels
    ELSE LET line == Strip(lines[i])
         IN  IF IsEmptyLine(line) \/ line = MarkerLine
             THEN ParseFrom(lines, i + 1, channels)
             ELSE IF StartsWithExtInf(line)
                  THEN LET r == ScanBlock(lines, i + 1, <<>>)
                       IN  ParseFrom(lines, r.j,
                              IF r.url # <<>>
                              THEN Append(channels,
                                     MkChannel(line, r.url[1], r.extras,
                                               Len(channels)))
                              ELSE channels)
                  ELSE ParseFrom(lines, i + 1, channels)

\* A parser that also emits a record for a header without a URL line
RECURSIVE ParseFromKeepAll(_, _, _)
ParseFromKeepAll(lines, i, channels) ==
    IF i > Len(lines) THEN channels
    ELSE LET line == Strip(lines[i])
         IN  IF StartsWithExtInf(line)
             THEN LET r == ScanBlock(lines, i + 1, <<>>)
                  IN  ParseFromKeepAll(lines, r.j,
                         Append(channels,
                            MkChannel(line,
                               IF r.url # <<>> THEN r.url[1] ELSE BlankLine,
                               r.extras, Len(channels))))
             ELSE ParseFromKeepAll(lines, i + 1, channels)

parse_m3u_playlist_keep_all(lines) == ParseFromKeepAll(lines, 1, <<>>)

parse_m3u_playlist(lines) == ParseFrom(lines, 1, <<>>)

----------------------------------------------------------------------------
\* find_matching_channel: <<>> for None, <<drew_ch>> for a match

Min(S) == CHOOSE x \in S : \A y \in S : x <= y

\* the first drew channel with the local tvg-id
TvgMatches(local_channel, drew_chs) ==
    {i \in 1..Len(drew_chs) :
        drew_chs[i].tvg_id = local_channel.tvg_id}

\* the first drew channel with the local name, trimmed and lower-cased
NameMatches(local_channel, drew_chs) ==
    {i \in 1..Len(drew_chs) :
        LowerSeq(StripSeq(drew_chs[i].name))
            = LowerSeq(StripSeq(local_channel.name))}

\* A matcher that compares names as they are written
find_matching_channel_exact_name(local_channel, drew_chs) ==
    LET byTvg == TvgMatches(local_channel, drew_chs)
        byName == {i \in 1..Len(drew_chs) :
                      drew_chs[i].name = local_channel.name}
    IN  IF local_channel.tvg_id # <<>> /\ byTvg # {}
        THEN <<drew_chs[Min(byTvg)]>>
        ELSE IF local_channel.name # <<>> /\ byName # {}
             THEN <<drew_chs[Min(byName)]>>
             ELSE <<>>

find_matching_channel(local_channel, drew_chs) ==
    LET byTvg == TvgMatches(local_channel, drew_chs)
        byName == NameMatches(local_channel, drew_chs)
    IN  IF local_channel.tvg_id # <<>> /\ byTvg # {}
        THEN <<drew_chs[Min(byTvg)]>>
        ELSE IF local_channel.name # <<>> /\ byName # {}
             THEN <<drew_chs[Min(byName)]>>
             ELSE <<>>

----------------------------------------------------------------------------
\* should_update_channel

\* A gate that only asks for a changed URL
should_update_channel_any_provider(local_channel, drew_channel) ==
    local_channel.url # drew_channel.url

should_update_channel(local_channel, drew_channel) ==
    IF local_channel.provider # drew_channel.provider THEN FALSE
    ELSE IF local_channel.url = drew_channel.url THEN FALSE
    ELSE TRUE

----------------------------------------------------------------------------
\* update_playlist

\* (local_ch.get("extras") or drew_ch.get("extras") or [])
ExtrasOr(local_ch, drew_ch) ==
    IF local_ch.extras # <<>> THEN local_ch.extras ELSE drew_ch.extras

\* the lines one pass of the for loop appends, and what it adds to the count
UpdateOne(local_ch, drew_chs) ==
    LET drew == find_matching_channel(local_ch, drew_chs)
    IN  IF drew # <<>> /\ should_update_channel(local_ch, drew[1])
        THEN [lines |-> <<drew[1].extinf>> \o ExtrasOr(local_ch, drew[1])
                          \o <<drew[1].url>>,
              count |-> 1]
        ELSE [lines |-> <<local_ch.extinf>> \o local_ch.extras
                          \o <<local_ch.url>>,
              count |-> 0]

RECURSIVE UpdateFrom(_, _, _, _, _)
UpdateFrom(local_chs, drew_chs, k, output_lines, count) ==
    IF k > Len(local_chs)
    THEN [lines |-> output_lines, count |-> count]
    ELSE LET r == UpdateOne(local_chs[k], drew_chs)
         IN  UpdateFrom(local_chs, drew_chs, k + 1,
                        output_lines \o r.lines, count + r.count)

\* An updater that drops the local channels it finds no match for
RECURSIVE UpdateFromDropUnmatched(_, _, _, _, _)
UpdateFromDropUnmatched(local_chs, drew_chs, k, output_lines, count) ==
    IF k > Len(local_chs)
    THEN [lines |-> output_lines, count |-> count]
    ELSE LET r == UpdateOne(local_chs[k], drew_chs)
             m == find_matching_channel(local_chs[k], drew_chs)
         IN  UpdateFromDropUnmatched(local_chs, drew_chs, k + 1,
                IF m = <<>> THEN output_lines ELSE output_lines \o r.lines,
                count + r.count)

update_playlist_drop_unmatched(local_chs, drew_chs) ==
    UpdateFromDropUnmatched(local_chs, drew_chs, 1, <<MarkerLine>>, 0)

update_playlist(local_chs, drew_chs) ==
    UpdateFrom(local_chs, drew_chs, 1, <<MarkerLine>>, 0)

----------------------------------------------------------------------------
\* save_playlist: the file after the call

\* A guard that only refuses the empty list
save_playlist_write_header_only(lines, file) ==
    IF Len(lines) < 1 THEN file ELSE [exists |-> TRUE, lines |-> lines]

save_playlist(lines, file) ==
    IF lines = <<>> \/ Len(lines) <= 1 THEN file
    ELSE [exists |-> TRUE, lines |-> lines]

\* whether save_playlist opens the file at all
SaveSkips(lines) == save_playlist(lines, [exists |-> FALSE, lines |-> <<>>]).exists = FALSE

----------------------------------------------------------------------------
\* The XMLTV guide.  A document is [attrib, children]; an element is
\* [tag, ref, n]: ref is the id attribute of a channel element or the channel
\* attribute of a programme element (<<>> when the attribute is missing), n
\* stands for the rest of the element.

Elem(tag, ref, n) == [tag |-> tag, ref |-> ref, n |-> n]
Doc(attrib, children) == [attrib |-> attrib, children |-> children]
NoDoc == Doc("", <<>>)

\* the payload the guide URL serves: "xml", "gz" (gzip of xml), "garbage"
\* (not XML), "empty" (zero bytes); None after a failed fetch is "none"
Payload(kind, doc) == [kind |-> kind, doc |-> doc]
NoPayload == Payload("none", NoDoc)

Max(S) == CHOOSE x \in S : \A y \in S : x >= y

\* get_local_channel_ids
get_local_channel_ids(local_chs) ==
    {local_chs[i].tvg_id[1] :
        i \in {k \in 1..Len(local_chs) : local_chs[k].tvg_id # <<>>}}

\* parse_xmltv_epg: ET.fromstring raises on what is not XML
ParseRaises(data) == data.kind \notin {"xml", "gz"}

\* channel elements that carry a non-empty id, by position
IdChannels(root) ==
    {i \in 1..Len(root.children) :
        /\ root.children[i].tag = "channel"
        /\ root.children[i].ref # <<>>
        /\ root.children[i].ref[1] # ""}

\* channels_dict[channel_id] = channel: a later element replaces an earlier one
ChannelsDict(root) ==
    [id \in {root.children[i].ref[1] : i \in IdChannels(root)} |->
        root.children[Max({i \in IdChannels(root) :
                              root.children[i].ref[1] = id})]]

\* the orders in which a for loop may visit a set
Orders(S) ==
    {o \in [1..Cardinality(S) -> S] :
        \A i, j \in 1..Cardinality(S) : i # j => o[i] # o[j]}

IsKeptProgramme(e, kept) ==
    e.tag = "programme" /\ e.ref # <<>> /\ e.ref[1] \in kept

\* A filter that keeps every programme of the guide
filter_epg_keep_all_programmes(root, channel_ids, dict, order) ==
    Doc(root.attrib,
        [i \in 1..Len(order) |-> dict[order[i]]]
        \o SelectSeq(root.children, LAMBDA e : e.tag = "programme"))

\* filter_epg_by_channels, the kept identifiers visited in the given order
filter_epg_by_channels(root, channel_ids, dict, order) ==
    LET kept_channel_ids == {order[i] : i \in 1..Len(order)}
    IN  Doc(root.attrib,
            [i \in 1..Len(order) |-> dict[order[i]]]
            \o SelectSeq(root.children,
                         LAMBDA e : IsKeptProgramme(e, kept_channel_ids)))

----------------------------------------------------------------------------
\* Inputs

RECURSIVE SeqsUpTo(_, _)
SeqsUpTo(S, n) ==
    IF n = 0 THEN {<<>>}
    ELSE LET P == SeqsUpTo(S, n - 1)
         IN  P \cup {Append(p, x) : p \in {q \in P : Len(q) = n - 1}, x \in S}

RECURSIVE Flatten(_)
Flatten(ss) == IF ss = <<>> THEN <<>> ELSE Head(ss) \o Flatten(Tail(ss))

\* a well-formed playlist of the given blocks
Playlist(blocks) == <<MarkerLine>> \o Flatten(blocks)

Block(attr, text, extras, url) == <<ExtInfLine(attr, text)>> \o extras \o <<url>>

VlcOpt == OtherLine("#EXTVLCOPT:http-user-agent=a")
KodiProp == OtherLine("#KODIPROP:b")

\* a stream: the option lines that precede a URL, and the URL
Stream(extras, url) == [extras |-> extras, url |-> url]

LocalStreams ==
    {Stream(<<>>, UrlLine(<<"ex", "com">>, "/p1")),
     Stream(<<VlcOpt>>, UrlLine(<<>>, "/p1"))}

DrewStreams ==
    {Stream(<<>>, UrlLine(<<"ex", "com">>, "/p1")),
     Stream(<<KodiProp>>, UrlLine(<<"cdn", "EX", "com">>, "/p2")),
     Stream(<<>>, UrlLine(<<"other", "net">>, "/p1")),
     Stream(<<>>, UrlLine(BadHost, "/p2"))}

LocalBlocks ==
    {Block(a, <<" ", "a">>, s.extras, s.url) :
        a \in {<<>>, <<"x">>}, s \in LocalStreams}

DrewHeaders ==
    {ExtInfLine(<<"x">>, <<"A">>), ExtInfLine(<<"x">>, <<"b">>),
     ExtInfLine(<<>>, <<"A">>)}

DrewBlocks ==
    {<<h>> \o s.extras \o <<s.url>> : h \in DrewHeaders, s \in DrewStreams}

\* PLAYLIST_FILE before the run: missing, a header whose URL is missing, or
\* a well-formed playlist
LocalFiles ==
    {[exists |-> FALSE, lines |-> <<>>],
     [exists |-> TRUE,
      lines |-> <<MarkerLine, ExtInfLine(<<"x">>, <<"a">>)>>]}
    \cup {[exists |-> TRUE, lines |-> Playlist(bs)] :
             bs \in SeqsUpTo(LocalBlocks, MaxLocal)}

DrewPlaylists == {Playlist(bs) : bs \in SeqsUpTo(DrewBlocks, MaxUp)}

SampleGuide ==
    Doc("DrewLive",
        <<Elem("channel", <<"x">>, 1), Elem("channel", <<"y">>, 1),
          Elem("programme", <<"x">>, 1), Elem("programme", <<"y">>, 1)>>)

DrewGuides == {Payload("gz", SampleGuide), Payload("garbage", NoDoc)}

----------------------------------------------------------------------------
\* main(), update_epg() and the handler of the script

Raise ==
    /\ pc' = "done"
    /\ exit_code' = 1

Init ==
    /\ pc = "start"
    /\ playlist_file \in LocalFiles
    /\ remote \in DrewPlaylists
    /\ drew_lines = <<>>
    /\ drew_channels = <<>>
    /\ local_lines = <<>>
    /\ local_channels = <<>>
    /\ updated_lines = <<>>
    /\ updated_count = 0
    /\ written = FALSE
    /\ epg_data = NoPayload
    /\ epg_root = NoDoc
    /\ channels_dict = <<>>
    /\ filtered_epg = NoDoc
    /\ epg_file = <<>>
    /\ epg_updated = FALSE
    /\ exit_code = -1

\* drew_lines = fetch_drew_playlist(): the response, or requests raises
FetchDrewPlaylist ==
    /\ pc = "start"
    /\ \/ /\ drew_lines' = remote
          /\ pc' = "fetched"
          /\ UNCHANGED exit_code
       \/ /\ Raise
          /\ UNCHANGED drew_lines
    /\ UNCHANGED <<playlist_file, remote, drew_channels,
                   local_lines, local_channels, updated_lines, updated_count,
                   written, epg_data, epg_root, channels_dict, filtered_epg,
                   epg_file, epg_updated>>

\* drew_channels = parse_m3u_playlist(drew_lines)
ParseDrewPlaylist ==
    /\ pc = "fetched"
    /\ drew_channels' = parse_m3u_playlist(drew_lines)
    /\ pc' = "parsed_drew"
    /\ UNCHANGED <<playlist_file, remote, drew_lines,
                   local_lines, local_channels, updated_lines, updated_count,
                   written, epg_data, epg_root, channels_dict, filtered_epg,
                   epg_file, epg_updated, exit_code>>

\* local_lines = load_local_playlist(): open() raises when the file is missing
LoadLocalPlaylist ==
    /\ pc = "parsed_drew"
    /\ IF playlist_file.exists
       THEN /\ local_lines' = playlist_file.lines
            /\ pc' = "loaded"
            /\ UNCHANGED exit_code
       ELSE /\ Raise
            /\ UNCHANGED local_lines
    /\ UNCHANGED <<playlist_file, remote, drew_lines,
                   drew_channels, local_channels, updated_lines,
                   updated_count, written, epg_data, epg_root, channels_dict,
                   filtered_epg, epg_file, epg_updated>>

\* local_channels = parse_m3u_playlist(local_lines)
ParseLocalPlaylist ==
    /\ pc = "loaded"
    /\ local_channels' = parse_m3u_playlist(local_lines)
    /\ pc' = "parsed_local"
    /\ UNCHANGED <<playlist_file, remote, drew_lines,
                   drew_channels, local_lines, updated_lines, updated_count,
                   written, epg_data, epg_root, channels_dict, filtered_epg,
                   epg_file, epg_updated, exit_code>>

\* updated_lines, updated_count = update_playlist(local_channels, drew_channels)
UpdatePlaylist ==
    /\ pc = "parsed_local"
    /\ LET r == update_playlist(local_channels, drew_channels)
       IN  /\ updated_lines' = r.lines
           /\ updated_count' = r.count
    /\ pc' = "updated"
    /\ UNCHANGED <<playlist_file, remote, drew_lines,
                   drew_channels, local_lines, local_channels, written,
                   epg_data, epg_root, channels_dict, filtered_epg, epg_file,
                   epg_updated, exit_code>>

\* save_playlist(updated_lines), in both branches of main: the guard returns
\* early, else the file is written, or open()/write() raises
SavePlaylist ==
    /\ pc = "updated"
    /\ IF SaveSkips(updated_lines)
       THEN /\ pc' = "saved"
            /\ UNCHANGED <<playlist_file, written, exit_code>>
       ELSE \/ /\ playlist_file' = save_playlist(updated_lines, playlist_file)
               /\ written' = TRUE
               /\ pc' = "saved"
               /\ UNCHANGED exit_code
            \/ /\ written' = TRUE
               /\ Raise
               /\ UNCHANGED playlist_file
    /\ UNCHANGED <<remote, drew_lines, drew_channels, local_lines,
                   local_channels, updated_lines, updated_count, epg_data,
                   epg_root, channels_dict, filtered_epg, epg_file,
                   epg_updated>>

\* epg_data = fetch_drew_epg(): the content, or None when requests raises
FetchDrewEpg ==
    /\ pc = "saved"
    /\ \/ \E payload \in DrewGuides : epg_data' = payload
       \/ epg_data' = NoPayload
    /\ pc' = "epg_fetched"
    /\ UNCHANGED <<playlist_file, remote, drew_lines,
                   drew_channels, local_lines, local_channels, updated_lines,
                   updated_count, written, epg_root, channels_dict,
                   filtered_epg, epg_file, epg_updated, exit_code>>

\* if not epg_data: return False
SkipEpg ==
    /\ pc = "epg_fetched"
    /\ epg_data.kind \in {"none", "empty"}
    /\ epg_updated' = FALSE
    /\ pc' = "epg_done"
    /\ UNCHANGED <<playlist_file, remote, drew_lines,
                   drew_channels, local_lines, local_channels, updated_lines,
                   updated_count, written, epg_data, epg_root, channels_dict,
                   filtered_epg, epg_file, exit_code>>

\* epg_root, channels_dict = parse_xmltv_epg(epg_data)
ParseXmltvEpg ==
    /\ pc = "epg_fetched"
    /\ epg_data.kind \notin {"none", "empty"}
    /\ IF ParseRaises(epg_data)
       THEN /\ Raise
            /\ UNCHANGED <<epg_root, channels_dict>>
       ELSE /\ epg_root' = epg_data.doc
            /\ channels_dict' = ChannelsDict(epg_data.doc)
            /\ pc' = "epg_parsed"
            /\ UNCHANGED exit_code
    /\ UNCHANGED <<playlist_file, remote, drew_lines,
                   drew_channels, local_lines, local_channels, updated_lines,
                   updated_count, written, epg_data, filtered_epg, epg_file,
                   epg_updated>>

\* filtered_epg = filter_epg_by_channels(epg_root, local_channel_ids, channels_dict)
FilterEpg ==
    /\ pc = "epg_parsed"
    /\ LET local_channel_ids == get_local_channel_ids(local_channels)
       IN  \E order \in Orders(local_channel_ids \cap DOMAIN channels_dict) :
              filtered_epg' = filter_epg_by_channels(epg_root,
                                  local_channel_ids, channels_dict, order)
    /\ pc' = "epg_filtered"
    /\ UNCHANGED <<playlist_file, remote, drew_lines,
                   drew_channels, local_lines, local_channels, updated_lines,
                   updated_count, written, epg_data, epg_root, channels_dict,
                   epg_file, epg_updated, exit_code>>

\* save_epg(filtered_epg); return True.  gzip.open may raise, and is re-raised
SaveEpg ==
    /\ pc = "epg_filtered"
    /\ \/ /\ epg_file' = <<filtered_epg>>
          /\ epg_updated' = TRUE
          /\ pc' = "epg_done"
          /\ UNCHANGED exit_code
       \/ /\ Raise
          /\ UNCHANGED <<epg_file, epg_updated>>
    /\ UNCHANGED <<playlist_file, remote, drew_lines,
                   drew_channels, local_lines, local_channels, updated_lines,
                   updated_count, written, epg_data, epg_root, channels_dict,
                   filtered_epg>>

\* main returns: the script ends normally
Finish ==
    /\ pc = "epg_done"
    /\ pc' = "done"
    /\ exit_code' = 0
    /\ UNCHANGED <<playlist_file, remote, drew_lines,
                   drew_channels, local_lines, local_channels, updated_lines,
                   updated_count, written, epg_data, epg_root, channels_dict,
                   filtered_epg, epg_file, epg_updated>>

Next ==
    \/ FetchDrewPlaylist
    \/ ParseDrewPlaylist
    \/ LoadLocalPlaylist
    \/ ParseLocalPlaylist
    \/ UpdatePlaylist
    \/ SavePlaylist
    \/ FetchDrewEpg
    \/ SkipEpg
    \/ ParseXmltvEpg
    \/ FilterEpg
    \/ SaveEpg
    \/ Finish

Spec == Init /\ [][Next]_vars

----------------------------------------------------------------------------
\* Properties of a run

\* update_playlist has returned in this run
Updated == updated_lines # <<>>

\* update_playlist has just returned
AfterUpdate == pc = "updated"

\* the output of update_playlist, read back by the parser
OutputChannels == parse_m3u_playlist(updated_lines)

\* the drew channel matched to the k-th local channel, <<>> for none
MatchOf(k) == find_matching_channel(local_channels[k], drew_channels)

\* the k-th of the channels read back from the output is the k-th local
\* channel as it was
SameBlock(out, k) ==
    /\ k <= Len(out)
    /\ out[k].extinf = local_channels[k].extinf
    /\ out[k].extras = local_channels[k].extras
    /\ out[k].url = local_channels[k].url

PassedThrough(k) == SameBlock(OutputChannels, k)

HeaderLines == {i \in 1..Len(updated_lines) : updated_lines[i].kind = "extinf"}

\* C1: every tvg-id and every display name carried by a header line of the
\* output of update_playlist is the tvg-id / display name of some local
\* channel; nothing present only in the upstream playlist appears.
C1_NoUpstreamOnlyIdentity ==
    AfterUpdate =>
        \A i \in HeaderLines :
            /\ TvgId(updated_lines[i]) # <<>> =>
                  \E k \in 1..Len(local_channels) :
                      local_channels[k].tvg_id = TvgId(updated_lines[i])
            /\ \E k \in 1..Len(local_channels) :
                  local_channels[k].name = ChannelName(updated_lines[i])

\* C2: after the #EXTM3U line the output holds exactly one header+URL block
\* per local channel, in local order; the URL of the k-th block is the k-th
\* local URL or the URL of the drew channel matched to it; the number of
\* blocks is the number of local channels whatever the upstream holds.
C2_OneBlockPerLocalChannel ==
    AfterUpdate =>
        LET out == OutputChannels
        IN  /\ Len(out) = Len(local_channels)
            /\ updated_lines =
                  <<MarkerLine>> \o
                  Flatten([k \in 1..Len(out) |->
                             <<out[k].extinf>> \o out[k].extras
                             \o <<out[k].url>>])
            /\ \A k \in 1..Len(local_channels) :
                  /\ k <= Len(out)
                  /\ \/ out[k].url = local_channels[k].url
                     \/ /\ MatchOf(k) # <<>>
                        /\ out[k].url = MatchOf(k)[1].url

\* two local channels, one of them updated, and an upstream channel that
\* matches neither
C2_Witness ==
    /\ AfterUpdate
    /\ Len(local_channels) = 2
    /\ updated_count = 1
    /\ \E d \in 1..Len(drew_channels) :
          \A k \in 1..Len(local_channels) :
              MatchOf(k) # <<drew_channels[d]>>

\* the local channels whose match comes from another provider
ProviderMismatch ==
    {k \in 1..Len(local_channels) :
        /\ MatchOf(k) # <<>>
        /\ extract_provider_domain(local_channels[k].url)
              # extract_provider_domain(MatchOf(k)[1].url)}

\* C3: a local channel whose matched drew channel has another provider label
\* is emitted with its own header, extra lines and URL, and is not counted in
\* updated_count, whether matched by tvg-id or by name.
C3_ProviderGate ==
    AfterUpdate =>
        LET out == OutputChannels
            mismatch == ProviderMismatch
        IN  /\ \A k \in mismatch : SameBlock(out, k)
            /\ updated_count <= Len(local_channels) - Cardinality(mismatch)

\* a provider mismatch on a tvg-id match and one on a name match
C3_Witness ==
    /\ AfterUpdate
    /\ \E k \in ProviderMismatch :
          MatchOf(k)[1].tvg_id = local_channels[k].tvg_id
    /\ \E k \in ProviderMismatch :
          local_channels[k].tvg_id = <<>>
    /\ \E k \in ProviderMismatch : local_channels[k].extras # <<>>

\* C4: parsing the output of update_playlist and running update_playlist
\* again against the same drew channels yields updated_count = 0 and the
\* same output lines.
C4_Idempotent ==
    AfterUpdate =>
        LET again == update_playlist(OutputChannels, drew_channels)
        IN  /\ again.count = 0
            /\ again.lines = updated_lines

\* C5: when the fetch of the drew playlist fails the run goes on with no
\* drew channels: the local playlist is loaded and reconciled unchanged, it
\* is saved, and the run does not end in exit(1) there.
C5_FetchFailureNotFatal ==
    (pc = "done" /\ drew_lines = <<>> /\ playlist_file.exists) =>
        /\ Updated
        /\ drew_channels = <<>>
        /\ updated_count = 0
        /\ \A k \in 1..Len(local_channels) : PassedThrough(k)
        /\ Len(updated_lines) > 1 => written

\* C6 as stated: for a local channel with a tvg-id, find_matching_channel
\* returns no drew channel whose tvg-id differs from it.
C6_TvgIdIsTheOnlyKey ==
    (pc = "parsed_local") =>
        \A k \in 1..Len(local_channels) :
            (local_channels[k].tvg_id # <<>> /\ MatchOf(k) # <<>>) =>
                MatchOf(k)[1].tvg_id = local_channels[k].tvg_id

SameTvgId(l, d) == l.tvg_id # <<>> /\ d.tvg_id = l.tvg_id

SameName(l, d) ==
    /\ l.name # <<>>
    /\ LowerSeq(StripSeq(d.name)) = LowerSeq(StripSeq(l.name))

\* C6 as amended: find_matching_channel returns the first drew channel with
\* the local tvg-id when the local channel has a tvg-id and such a drew
\* channel exists; otherwise the first drew channel whose trimmed,
\* lower-cased name equals the local one; otherwise nothing.
C6_TvgIdFirstThenName ==
    (pc = "parsed_local") =>
        \A k \in 1..Len(local_channels) :
            LET l == local_channels[k]
                byTvg == {i \in 1..Len(drew_channels) :
                             SameTvgId(l, drew_channels[i])}
                byName == {i \in 1..Len(drew_channels) :
                              SameName(l, drew_channels[i])}
            IN  /\ byTvg # {} =>
                      \E i \in byTvg :
                          /\ MatchOf(k) = <<drew_channels[i]>>
                          /\ \A j \in byTvg : i <= j
                /\ (byTvg = {} /\ byName # {}) =>
                      \E i \in byName :
                          /\ MatchOf(k) = <<drew_channels[i]>>
                          /\ \A j \in byName : i <= j
                /\ (byTvg = {} /\ byName = {}) => MatchOf(k) = <<>>

\* a local channel with a tvg-id that no drew channel carries, matched by
\* name to a drew channel whose name differs in case and in blanks
C6_Witness ==
    /\ pc = "parsed_local"
    /\ \E k \in 1..Len(local_channels) :
          /\ local_channels[k].tvg_id # <<>>
          /\ MatchOf(k) # <<>>
          /\ MatchOf(k)[1].tvg_id # local_channels[k].tvg_id
          /\ MatchOf(k)[1].name # local_channels[k].name

\* C7: a local channel whose URL yields the empty provider label is never
\* updated, even when the matched drew URL also yields the empty label and
\* differs from the local URL.
C7_EmptyProviderNeverUpdated ==
    AfterUpdate =>
        LET out == OutputChannels
        IN  \A k \in 1..Len(local_channels) :
                extract_provider_domain(local_channels[k].url) = <<>> =>
                    SameBlock(out, k)

\* C8: save_playlist with an empty list or with the marker line alone leaves
\* the file as it is and returns without raising; a run whose local
\* playlist parses to zero channels does not write the file.
C8_SaveGuard ==
    /\ save_playlist(<<>>, playlist_file) = playlist_file
    /\ save_playlist(<<MarkerLine>>, playlist_file) = playlist_file
    /\ (Updated /\ local_channels = <<>>) =>
          /\ Len(updated_lines) <= 1
          /\ ~written
          /\ playlist_file.lines = local_lines

\* save_playlist has returned in a run over a local playlist that holds
\* lines and no channel
C8_Witness ==
    /\ pc = "saved"
    /\ local_channels = <<>>
    /\ Len(local_lines) > 1
    /\ playlist_file.lines = local_lines
    /\ ~written

----------------------------------------------------------------------------
\* The parser on arbitrary text

ParsePool ==
    {ExtInfLine(<<"x">>, <<"a">>),
     ExtInfLine(<<"">>, <<>>),
     Padded(ExtInfLine(<<>>, <<" ", "B">>), TRUE, FALSE),
     UrlLine(<<"ex", "com">>, "/p1"),
     Padded(UrlLine(<<"other", "net">>, "/p2"), FALSE, TRUE),
     VlcOpt, BlankLine, MarkerLine}

InitParse ==
    /\ pc = "loaded"
    /\ local_lines \in SeqsUpTo(ParsePool, MaxLines)
    /\ playlist_file = [exists |-> TRUE, lines |-> local_lines]
    /\ remote = <<MarkerLine>>
    /\ drew_lines = <<MarkerLine>>
    /\ drew_channels = <<>>
    /\ local_channels = <<>>
    /\ updated_lines = <<>>
    /\ updated_count = 0
    /\ written = FALSE
    /\ epg_data = NoPayload
    /\ epg_root = NoDoc
    /\ channels_dict = <<>>
    /\ filtered_epg = NoDoc
    /\ epg_file = <<>>
    /\ epg_updated = FALSE
    /\ exit_code = -1

NextParse == ParseLocalPlaylist

SpecParse == InitParse /\ [][NextParse]_vars

\* What C10 asks of the records for the given lines.  With trimmed, a line
\* is looked at after str.strip(); without, as it is written.
ParsesAsBlocks(lines, result, trimmed) ==
    LET T(l) == IF trimmed THEN Strip(l) ELSE l
        IsHeader(i) == StartsWithExtInf(T(lines[i]))
        IsUrl(i) == StartsWithHttp(T(lines[i]))
        \* the first URL line after header i, before the next header
        UrlOf(i) ==
            {j \in (i + 1)..Len(lines) :
                /\ IsUrl(j)
                /\ \A k \in (i + 1)..(j - 1) : ~IsHeader(k) /\ ~IsUrl(k)}
        good == {i \in 1..Len(lines) : IsHeader(i) /\ UrlOf(i) # {}}
        Rank(i) == Cardinality({g \in good : g <= i})
    IN  /\ Len(result) = Cardinality(good)
        /\ \A i \in good :
              LET j == CHOOSE u \in UrlOf(i) : TRUE
                  r == result[Rank(i)]
              IN  /\ r.url = T(lines[j])
                  /\ r.extras = SubSeq(lines, i + 1, j - 1)
                  /\ r.original_index = Rank(i) - 1

\* C10 as stated: parse_m3u_playlist returns, in input order, one record for
\* each line starting with '#EXTINF' that is followed by a line starting with
\* 'http://' or 'https://' before the next such header or the end, and no
\* other record; the url of the record is that line, its extras are the
\* lines in between, its original_index is its position in the result.
C10_ParsesWrittenLines ==
    (pc = "parsed_local") =>
        ParsesAsBlocks(local_lines, local_channels, FALSE)

\* C10 as amended: the same, with every line tested after its surrounding
\* whitespace is trimmed and the url being the trimmed line; the extras are
\* the lines in between as written.
C10_ParsesTrimmedLines ==
    (pc = "parsed_local") =>
        ParsesAsBlocks(local_lines, local_channels, TRUE)

\* a header without a URL was skipped, a record kept lines in between, and
\* a header and a URL carried surrounding whitespace
C10_Witness ==
    /\ pc = "parsed_local"
    /\ Len(local_channels) = 1
    /\ local_channels[1].extras # <<>>
    /\ local_channels[1].extinf.text = <<" ", "B">>
    /\ \E i \in 1..Len(local_lines) :
          local_lines[i].kind = "url" /\ local_lines[i].trail
    /\ Cardinality({i \in 1..Len(local_lines) :
                       local_lines[i].kind = "extinf"}) = 2

----------------------------------------------------------------------------
\* The guide filter on arbitrary guides

ElemPool ==
    {Elem("channel", <<"x">>, 1), Elem("channel", <<"x">>, 2),
     Elem("channel", <<"y">>, 1), Elem("channel", <<>>, 1),
     Elem("programme", <<"x">>, 1), Elem("programme", <<"y">>, 1),
     Elem("programme", <<>>, 1)}

GuidePayloads ==
    {Payload("gz", Doc("DrewLive", c)) : c \in SeqsUpTo(ElemPool, MaxGuide)}
    \cup {Payload("xml", SampleGuide), Payload("garbage", NoDoc),
          Payload("empty", NoDoc)}

\* local channels that carry the given tvg-ids
ChannelsWithIds(ids) ==
    LET chosen == SelectSeq(<<"x", "y", "z">>, LAMBDA id : id \in ids)
    IN  [i \in 1..Len(chosen) |->
            MkChannel(ExtInfLine(<<chosen[i]>>, <<"a">>),
                      UrlLine(<<"ex", "com">>, "/p1"), <<>>, i - 1)]

InitEPG ==
    /\ pc = "epg_fetched"
    /\ epg_data \in GuidePayloads
    /\ local_channels \in {ChannelsWithIds(ids) : ids \in SUBSET {"x", "y", "z"}}
    /\ updated_lines = update_playlist(local_channels, <<>>).lines
    /\ updated_count = 0
    /\ local_lines = updated_lines
    /\ playlist_file = [exists |-> TRUE, lines |-> local_lines]
    /\ written = ~SaveSkips(updated_lines)
    /\ remote = <<MarkerLine>>
    /\ drew_lines = <<MarkerLine>>
    /\ drew_channels = <<>>
    /\ epg_root = NoDoc
    /\ channels_dict = <<>>
    /\ filtered_epg = NoDoc
    /\ epg_file = <<>>
    /\ epg_updated = FALSE
    /\ exit_code = -1

NextEPG ==
    \/ SkipEpg
    \/ ParseXmltvEpg
    \/ FilterEpg
    \/ SaveEpg
    \/ Finish

SpecEPG == InitEPG /\ [][NextEPG]_vars

\* C9: the document filter_epg_by_channels returns holds a channel element
\* only if its id is a kept identifier and the element is in the guide, and
\* a programme element only if its channel reference is the id of a channel
\* element of the result; a kept identifier the guide lacks adds nothing and
\* raises nothing.
C9_FilteredGuide ==
    (pc = "epg_filtered") =>
        LET keep_identifiers == get_local_channel_ids(local_channels)
            kids == filtered_epg.children
            guide == epg_root.children
        IN  /\ exit_code # 1
            /\ \A i \in 1..Len(kids) :
                  /\ \E j \in 1..Len(guide) : guide[j] = kids[i]
                  /\ kids[i].tag = "channel" =>
                        /\ kids[i].ref # <<>>
                        /\ kids[i].ref[1] \in keep_identifiers
                  /\ kids[i].tag = "programme" =>
                        \E j \in 1..Len(kids) :
                            /\ kids[j].tag = "channel"
                            /\ kids[j].ref = kids[i].ref
                            /\ kids[j].ref # <<>>

\* the filter kept a channel and one of its programmes, dropped a programme
\* of a channel that is not kept, and met a kept identifier the guide lacks
C9_Witness ==
    /\ pc = "epg_filtered"
    /\ \E id \in get_local_channel_ids(local_channels) :
          id \notin DOMAIN channels_dict
    /\ \E i \in 1..Len(filtered_epg.children) :
          filtered_epg.children[i].tag = "channel"
    /\ \E i \in 1..Len(filtered_epg.children) :
          filtered_epg.children[i].tag = "programme"
    /\ \E j \in 1..Len(epg_root.children) :
          /\ epg_root.children[j].tag = "programme"
          /\ \A i \in 1..Len(filtered_epg.children) :
                filtered_epg.children[i] # epg_root.children[j]

====
